---- MODULE Spec2Model ----
(***************************************************************************)
(* Model of src/components/VncDisplay/index.jsx: the VncDisplay React      *)
(* component, which owns one noVNC RFB client instance (this.rfb), built   *)
(* against the rendered container element (this.canvas).                   *)
(*                                                                         *)
(* JavaScript values are written as string tokens ("null", "undefined",    *)
(* "true", "false", "0", "3", "", "red", ...), so that one props record    *)
(* can hold booleans, numbers, strings and callbacks; Truthy gives the     *)
(* JavaScript truthiness of a token.  RFB instances are numbered 1, 2, ... *)
(* in the order `new RFB` is evaluated; NoRfb stands for null/undefined.   *)
(* The RFB library and React are the environment: a call on an instance is *)
(* recorded in `calls`, the list of external calls of the last handler.    *)
(***************************************************************************)
EXTENDS Integers, Sequences, FiniteSets, TLC

\* Largest number of RFB instances constructed in one behaviour.
MaxInst == 2

\* this.rfb when it holds no instance (undefined before connect, null after).
NoRfb == 0

\* The pass-through settings, in the order connect() assigns them.
PassThrough ==
  << "viewOnly", "focusOnClick", "clipViewport", "dragViewport",
     "scaleViewport", "resizeSession", "showDotCursor", "background",
     "qualityLevel", "compressionLevel" >>

\* The noVNC event names, in the order of the `events` table.
EventNames ==
  << "connect", "disconnect", "credentialsrequired", "securityfailure",
     "clipboard", "bell", "desktopname", "capabilities" >>

\* The `events` table: noVNC event name -> callback property.
events ==
  [ connect |-> "onConnect",
    disconnect |-> "onDisconnect",
    credentialsrequired |-> "onCredentialsRequired",
    securityfailure |-> "onSecurityFailure",
    clipboard |-> "onClipboard",
    bell |-> "onBell",
    desktopname |-> "onDesktopName",
    capabilities |-> "onCapabilities" ]

Range(f) == { f[i] : i \in DOMAIN f }

PassThroughSet == Range(PassThrough)

EventSet == Range(EventNames)

\* The callback properties the `events` table names.
CallbackSet == { events[e] : e \in EventSet }

\* JavaScript ToBoolean on a value token.
Truthy(v) == v \notin { "undefined", "null", "false", "0", "" }

\* `x != null` (loose): neither null nor undefined.
NotNullish(v) == v \notin { "undefined", "null" }

(***************************************************************************)
(* defaultProps, restricted to the properties the component or the RFB     *)
(* constructor reads.  url is required and has no default; scale and       *)
(* onCapabilities have no default either, so they read as undefined.       *)
(***************************************************************************)
defaultProps ==
  [ url |-> "wss://a",
    wsProtocols |-> "binary",
    shared |-> "null",
    scale |-> "undefined",
    viewOnly |-> "null",
    focusOnClick |-> "null",
    clipViewport |-> "null",
    dragViewport |-> "null",
    scaleViewport |-> "null",
    resizeSession |-> "null",
    showDotCursor |-> "null",
    background |-> "null",
    qualityLevel |-> "null",
    compressionLevel |-> "null",
    onConnect |-> "null",
    onDisconnect |-> "null",
    onCredentialsRequired |-> "null",
    onSecurityFailure |-> "null",
    onClipboard |-> "null",
    onBell |-> "null",
    onDesktopName |-> "null",
    onCapabilities |-> "undefined" ]

\* Values a caller may give to one property (propTypes), besides the default.
Overrides ==
  { <<"url", "wss://b">>, <<"wsProtocols", "base64">>, <<"shared", "true">>,
    <<"scale", "0">>, <<"scale", "2">>,
    <<"viewOnly", "true">>, <<"viewOnly", "false">>,
    <<"focusOnClick", "true">>, <<"focusOnClick", "false">>,
    <<"clipViewport", "true">>, <<"dragViewport", "true">>,
    <<"scaleViewport", "true">>, <<"resizeSession", "true">>,
    <<"showDotCursor", "true">>, <<"showDotCursor", "false">>,
    <<"background", "">>, <<"background", "red">>,
    <<"qualityLevel", "0">>, <<"qualityLevel", "3">>,
    <<"qualityLevel", "7">>,
    <<"compressionLevel", "0">>, <<"compressionLevel", "2">>,
    <<"onConnect", "f">>, <<"onDisconnect", "f">>,
    <<"onCredentialsRequired", "f">>, <<"onSecurityFailure", "f">>,
    <<"onClipboard", "f">>, <<"onBell", "f">>, <<"onBell", "g">>,
    <<"onDesktopName", "f">>, <<"onCapabilities", "f">> }

\* A configuration with several settings and callbacks given at once.
fullProps ==
  [ defaultProps EXCEPT !["viewOnly"] = "true", !["qualityLevel"] = "7",
                        !["onConnect"] = "f", !["onBell"] = "f" ]

\* The configurations a caller renders the component with: the defaults
\* with at most one property given, and fullProps.
Configs ==
  { defaultProps, fullProps } \cup
  { [ defaultProps EXCEPT ![o[1]] = o[2] ] : o \in Overrides }

\* Values of the `ref` React hands to registerChild at mount.
Refs == { "div", "null" }

VARIABLES
  phase,        \* "new" (constructed), "mounted", "unmounted"
  props,        \* this.props
  canvas,       \* this.canvas
  rfb,          \* this.rfb: NoRfb or the number of the instance
  created,      \* number of `new RFB` evaluated so far
  disconnects,  \* disconnects[i]: rfb.disconnect() calls on instance i
  fields,       \* pass-through fields of the last constructed instance
  listeners,    \* listeners[e]: listeners added to it for event e
  atConnect,    \* the callback properties of this.props when that
                \* instance was constructed
  calls,        \* external calls made by the last handler, in order
  raised,       \* "none", or the error the last handler threw
  last,         \* the last handler: its name, this.props and this.rfb
                \* before it ran, its nextProps argument, and its other
                \* input (the event dispatched, document.activeElement)
  attempt,      \* "none", or whether the last connect() found a container
  discSince,    \* disconnect() was called after the last connect() returned
  mountRef      \* "none", or the ref given at mount

vars ==
  << phase, props, canvas, rfb, created, disconnects, fields, listeners,
     atConnect, calls, raised, last, attempt, discSince, mountRef >>

\* The callback properties of a configuration.
Callbacks(p) == [ c \in CallbackSet |-> p[c] ]

\* An external call: operation, instance (0: the document), and arguments.
Call(op, id, key, val) == [ op |-> op, id |-> id, key |-> key, val |-> val ]

\* Counters of calls saturate.
Sat(n) == IF n > 2 THEN 2 ELSE n

Unset == [ p \in PassThroughSet |-> "unset" ]

NoListeners == [ e \in EventSet |-> 0 ]

\* The component and its environment as one record, at the start of a handler.
Cur ==
  [ props |-> props, canvas |-> canvas, rfb |-> rfb, created |-> created,
    disconnects |-> disconnects, fields |-> fields, listeners |-> listeners,
    atConnect |-> atConnect, calls |-> << >>, raised |-> "none" ]

\* The state a handler leaves.
Becomes(t) ==
  /\ canvas' = t.canvas
  /\ rfb' = t.rfb
  /\ created' = t.created
  /\ disconnects' = t.disconnects
  /\ fields' = t.fields
  /\ listeners' = t.listeners
  /\ atConnect' = t.atConnect
  /\ calls' = t.calls
  /\ raised' = t.raised

Handler(name, nextProps) ==
  [ op |-> name, prevProps |-> props, prevRfb |-> rfb,
    nextProps |-> nextProps, input |-> "none" ]

(***************************************************************************)
(* disconnect = () => { if (!this.rfb) return;                             *)
(*                      this.rfb.disconnect(); this.rfb = null; }          *)
(***************************************************************************)
disconnect_keep(s) ==
  IF s.rfb = NoRfb
  THEN s
  ELSE [ s EXCEPT !.calls = Append(@, Call("disconnect", s.rfb, "", "")),
                  !.disconnects[s.rfb] = Sat(@ + 1) ]

disconnect(s) ==
  IF s.rfb = NoRfb
  THEN s
  ELSE [ s EXCEPT !.calls = Append(@, Call("disconnect", s.rfb, "", "")),
                  !.disconnects[s.rfb] = Sat(@ + 1),
                  !.rfb = NoRfb ]

\* this.rfb = new RFB(this.canvas, url, this.props)
construct(s) ==
  [ s EXCEPT !.created = @ + 1,
             !.rfb = s.created + 1,
             !.fields = Unset,
             !.listeners = NoListeners,
             !.atConnect = Callbacks(s.props),
             !.calls = Append(@, Call("new", s.created + 1, s.canvas,
                                      s.props["url"])) ]

\* if (p) this.rfb.p = p;
assign_always(s, p) ==
  [ s EXCEPT !.fields[p] = s.props[p],
             !.calls = Append(@, Call("set", s.rfb, p, s.props[p])) ]

assign(s, p) ==
  IF Truthy(s.props[p])
  THEN [ s EXCEPT !.fields[p] = s.props[p],
                  !.calls = Append(@, Call("set", s.rfb, p, s.props[p])) ]
  ELSE s

\* The ten assignments of connect(), from the i-th on.
RECURSIVE applySettings(_, _)
applySettings(s, i) ==
  IF i > Len(PassThrough)
  THEN s
  ELSE applySettings(assign(s, PassThrough[i]), i + 1)

\* if (propertyName in this.props && this.props[propertyName] != null)
\*   this.rfb.addEventListener(event, () => { this.props[propertyName](); });
listen(s, e) ==
  IF NotNullish(s.props[events[e]])
  THEN [ s EXCEPT !.listeners[e] = Sat(@ + 1),
                  !.calls = Append(@, Call("addEventListener", s.rfb, e, "")) ]
  ELSE s

\* Object.entries(events).forEach(...), from the i-th entry on.
RECURSIVE registerListeners(_, _)
registerListeners(s, i) ==
  IF i > Len(EventNames)
  THEN s
  ELSE registerListeners(listen(s, EventNames[i]), i + 1)

(***************************************************************************)
(* connect = () => { this.disconnect(); if (!this.canvas) return;          *)
(*                   this.rfb = new RFB(...); <assignments>; <listeners> } *)
(***************************************************************************)
connect_nodisc(s) ==
  IF ~Truthy(s.canvas)
  THEN s
  ELSE registerListeners(applySettings(construct(s), 1), 1)

connect_listenfirst(s) ==
  LET d == disconnect(s)
  IN  IF ~Truthy(d.canvas)
      THEN d
      ELSE applySettings(registerListeners(construct(d), 1), 1)

connect(s) ==
  LET d == disconnect(s)
  IN  IF ~Truthy(d.canvas)
      THEN d
      ELSE registerListeners(applySettings(construct(d), 1), 1)

\* registerChild = ref => { this.canvas = ref; }
registerChild(s, ref) == [ s EXCEPT !.canvas = ref ]

\* this.rfb.get_display().set_scale(v)
displaySetScale(s, v) ==
  [ s EXCEPT !.calls = Append(@, Call("display.set_scale", s.rfb, "", v)) ]

\* this.get_mouse(): the class defines no get_mouse, so the call throws
\* a TypeError and the rest of the handler does not run.
get_mouse(s) == [ s EXCEPT !.raised = "TypeError" ]

(***************************************************************************)
(* componentWillReceiveProps(nextProps)                                    *)
(***************************************************************************)
RECURSIVE writeAll(_, _, _)
writeAll(s, nextProps, i) ==
  IF i > Len(PassThrough)
  THEN s
  ELSE writeAll(
         [ s EXCEPT !.fields[PassThrough[i]] = nextProps[PassThrough[i]],
                    !.calls = Append(@, Call("set", s.rfb, PassThrough[i],
                                             nextProps[PassThrough[i]])) ],
         nextProps, i + 1)

componentWillReceiveProps_writeall(s, nextProps) ==
  IF s.rfb = NoRfb
  THEN s
  ELSE writeAll(s, nextProps, 1)

componentWillReceiveProps_teardown(s, nextProps) ==
  IF nextProps["url"] # s.props["url"]
  THEN disconnect(s)
  ELSE s

componentWillReceiveProps_relisten(s, nextProps) ==
  IF s.rfb = NoRfb
  THEN s
  ELSE [ registerListeners([ s EXCEPT !.props = nextProps ], 1)
           EXCEPT !.props = s.props ]

componentWillReceiveProps_noguard(s, nextProps) ==
  IF nextProps["scale"] # s.props["scale"]
  THEN IF s.rfb = NoRfb
       THEN [ s EXCEPT !.raised = "TypeError" ]
       ELSE get_mouse(displaySetScale(s,
              IF Truthy(nextProps["scale"]) THEN nextProps["scale"] ELSE "1"))
  ELSE s

componentWillReceiveProps(s, nextProps) ==
  IF s.rfb = NoRfb
  THEN s
  ELSE IF nextProps["scale"] # s.props["scale"]
       THEN get_mouse(displaySetScale(s,
              IF Truthy(nextProps["scale"]) THEN nextProps["scale"] ELSE "1"))
       ELSE s

\* handleMouseEnter; active: document.activeElement is an element.
handleMouseEnter_focusfirst(s, active) ==
  IF s.rfb = NoRfb
  THEN s
  ELSE LET b == [ s EXCEPT !.calls = Append(@, Call("focus", s.rfb, "", "")) ]
       IN  IF active
           THEN [ b EXCEPT !.calls =
                    Append(@, Call("activeElement.blur", 0, "", "")) ]
           ELSE b

handleMouseEnter(s, active) ==
  IF s.rfb = NoRfb
  THEN s
  ELSE LET b == IF active
                THEN [ s EXCEPT !.calls =
                         Append(@, Call("activeElement.blur", 0, "", "")) ]
                ELSE s
       IN  [ b EXCEPT !.calls = Append(@, Call("focus", s.rfb, "", "")) ]

\* handleMouseLeave
handleMouseLeave(s) ==
  IF s.rfb = NoRfb
  THEN s
  ELSE [ s EXCEPT !.calls = Append(@, Call("blur", s.rfb, "", "")) ]

\* The listener connect() adds for event e: () => { this.props[p](); }
\* It takes no parameter, reads this.props when it runs and passes no
\* argument; when the property holds no function the call throws a TypeError.
listener_captured(s, e) ==
  IF NotNullish(s.atConnect[events[e]])
  THEN [ s EXCEPT !.calls =
           Append(@, Call("callback", 0, s.atConnect[events[e]], "")) ]
  ELSE [ s EXCEPT !.raised = "TypeError" ]

listener(s, e) ==
  IF NotNullish(s.props[events[e]])
  THEN [ s EXCEPT !.calls =
           Append(@, Call("callback", 0, s.props[events[e]], "")) ]
  ELSE [ s EXCEPT !.raised = "TypeError" ]

\* The RFB instance dispatches event e: the n listeners added for e run in
\* turn, until one throws.
RECURSIVE dispatchEvent(_, _, _)
dispatchEvent(s, e, n) ==
  IF n = 0 \/ s.raised # "none"
  THEN s
  ELSE dispatchEvent(listener(s, e), e, n - 1)

\* componentDidMount() { this.connect(); }
componentDidMount(s) == connect(s)

\* componentWillUnmount() { this.disconnect(); }
componentWillUnmount_nothing(s) == s

componentWillUnmount(s) == disconnect(s)

----------------------------------------------------------------------------

Init ==
  /\ phase = "new"
  /\ props \in Configs
  /\ canvas = "undefined"
  /\ rfb = NoRfb
  /\ created = 0
  /\ disconnects = [ i \in 1..MaxInst |-> 0 ]
  /\ fields = Unset
  /\ listeners = NoListeners
  /\ atConnect = Callbacks(defaultProps)
  /\ calls = << >>
  /\ raised = "none"
  /\ last = [ op |-> "constructor", prevProps |-> props, prevRfb |-> NoRfb,
              nextProps |-> props, input |-> "none" ]
  /\ attempt = "none"
  /\ discSince = FALSE
  /\ mountRef = "none"

\* Room for the instance a connect() would construct.
Room(s) == Truthy(s.canvas) => s.created < MaxInst

\* React mounts the component: the ref of the rendered <div> is passed to
\* registerChild, then componentDidMount runs.
Mount ==
  \E ref \in Refs :
    /\ phase = "new"
    /\ phase' = "mounted"
    /\ Becomes(componentDidMount(registerChild(Cur, ref)))
    /\ last' = Handler("componentDidMount", props)
    /\ attempt' = IF Truthy(ref) THEN "handle" ELSE "nohandle"
    /\ discSince' = FALSE
    /\ mountRef' = ref
    /\ UNCHANGED props

\* React re-renders the mounted component with a new configuration:
\* componentWillReceiveProps(nextProps) runs, then this.props is replaced
\* unless the handler threw.
ReceiveProps ==
  \E nextProps \in Configs :
    LET t == componentWillReceiveProps(Cur, nextProps)
    IN  /\ phase = "mounted"
        /\ Becomes(t)
        /\ props' = IF t.raised = "none" THEN nextProps ELSE props
        /\ last' = Handler("componentWillReceiveProps", nextProps)
        /\ UNCHANGED << phase, attempt, discSince, mountRef >>

\* A holder of the component instance calls connect().
Connect ==
  /\ phase \in { "mounted", "unmounted" }
  /\ Room(Cur)
  /\ Becomes(connect(Cur))
  /\ last' = Handler("connect", props)
  /\ attempt' = IF Truthy(canvas) THEN "handle" ELSE "nohandle"
  /\ discSince' = FALSE
  /\ UNCHANGED << phase, props, mountRef >>

\* A holder of the component instance calls disconnect().
Disconnect ==
  /\ phase \in { "mounted", "unmounted" }
  /\ Becomes(disconnect(Cur))
  /\ last' = Handler("disconnect", props)
  /\ discSince' = TRUE
  /\ UNCHANGED << phase, props, attempt, mountRef >>

MouseEnter ==
  \E active \in BOOLEAN :
    /\ phase \in { "mounted", "unmounted" }
    /\ Becomes(handleMouseEnter(Cur, active))
    /\ last' = [ Handler("handleMouseEnter", props) EXCEPT
                   !.input = IF active THEN "activeElement" ELSE "none" ]
    /\ UNCHANGED << phase, props, attempt, discSince, mountRef >>

MouseLeave ==
  /\ phase \in { "mounted", "unmounted" }
  /\ Becomes(handleMouseLeave(Cur))
  /\ last' = Handler("handleMouseLeave", props)
  /\ UNCHANGED << phase, props, attempt, discSince, mountRef >>

\* React unmounts the component: componentWillUnmount runs, then the ref of
\* the removed <div> is detached, registerChild(null).
Unmount ==
  /\ phase = "mounted"
  /\ phase' = "unmounted"
  /\ Becomes(registerChild(componentWillUnmount(Cur), "null"))
  /\ last' = Handler("componentWillUnmount", props)
  /\ discSince' = TRUE
  /\ UNCHANGED << props, attempt, mountRef >>

\* The last constructed RFB instance dispatches an event; the library
\* also does so after its disconnect() was called ("disconnect").
DispatchEvent ==
  \E e \in EventSet :
    /\ phase \in { "mounted", "unmounted" }
    /\ created >= 1
    /\ Becomes(dispatchEvent(Cur, e, listeners[e]))
    /\ last' = [ Handler("dispatchEvent", props) EXCEPT !.input = e ]
    /\ UNCHANGED << phase, props, attempt, discSince, mountRef >>

Next ==
  \/ Mount
  \/ ReceiveProps
  \/ Connect
  \/ Disconnect
  \/ MouseEnter
  \/ MouseLeave
  \/ DispatchEvent
  \/ Unmount

Spec == Init /\ [][Next]_vars

----------------------------------------------------------------------------

TypeOK ==
  /\ phase \in { "new", "mounted", "unmounted" }
  /\ props \in Configs
  /\ canvas \in { "undefined", "null", "div" }
  /\ rfb \in 0..MaxInst
  /\ created \in 0..MaxInst
  /\ raised \in { "none", "TypeError" }

----------------------------------------------------------------------------
(* Vocabulary of the properties *)

ConnectOps == { "connect", "componentDidMount" }

\* The last handler was a connect() that found a container handle.
ConnectedWithHandle == last.op \in ConnectOps /\ attempt = "handle"

\* The last handler was a configuration update on a live instance.
UpdatedLive ==
  last.op = "componentWillReceiveProps" /\ last.prevRfb # NoRfb

\* Positions of the calls of operation op, on key k when k is not "*".
CallsOf(op, k) ==
  { i \in DOMAIN calls : calls[i].op = op /\ (k = "*" \/ calls[i].key = k) }

\* Instances constructed and not yet disconnected.
Live == { i \in 1..created : disconnects[i] = 0 }

----------------------------------------------------------------------------

\* C1 (as stated): this.rfb is non-null if and only if the component is
\* mounted and a container handle was available at the last connect attempt.
C1_RfbIffMountedWithHandle ==
  (rfb # NoRfb) <=> (phase = "mounted" /\ attempt = "handle")

\* C1 (amended): this.rfb is non-null if and only if the component is
\* mounted, a container handle was available at the last connect attempt,
\* and disconnect() has not been called since that attempt.
C1_RfbIffMountedWithHandleNotDisconnected ==
  (rfb # NoRfb) <=>
    (phase = "mounted" /\ attempt = "handle" /\ ~discSince)

\* C1 witness: disconnect() was called on a mounted, connected component.
C1_Witness ==
  /\ last.op = "disconnect"
  /\ last.prevRfb # NoRfb
  /\ phase = "mounted"
  /\ attempt = "handle"
  /\ rfb = NoRfb

\* C2: every connect() with a container handle constructs a fresh instance,
\* after invoking disconnect on the instance that existed, if any; the only
\* instance not yet disconnected is the one this.rfb holds, so no instance
\* is used again after its disconnect and at most one is live.
C2_ConnectFreshInstance ==
  /\ [](/\ Cardinality(Live) <= 1
        /\ Live = (IF rfb = NoRfb THEN {} ELSE { rfb })
        /\ ConnectedWithHandle =>
             /\ rfb = created
             /\ rfb # last.prevRfb
             /\ Cardinality(CallsOf("new", "*")) = 1
             /\ IF last.prevRfb = NoRfb
                THEN /\ calls[1].op = "new" /\ calls[1].id = rfb
                     /\ CallsOf("disconnect", "*") = {}
                ELSE /\ calls[1] = Call("disconnect", last.prevRfb, "", "")
                     /\ calls[2].op = "new" /\ calls[2].id = rfb
                     /\ CallsOf("disconnect", "*") = { 1 })
  /\ [][(last'.op \in ConnectOps /\ attempt' = "handle") =>
          (created' = created + 1 /\ rfb' = created + 1)]_vars

\* C2 witness: connect() ran while an instance existed.
C2_Witness ==
  /\ ConnectedWithHandle
  /\ last.op = "connect"
  /\ last.prevRfb # NoRfb
  /\ rfb # NoRfb

\* C3: disconnect() never raises; with no instance it changes nothing and
\* calls nothing; with an instance it invokes that instance's disconnect
\* exactly once and clears this.rfb; running it twice is running it once.
C3_DisconnectIdempotent ==
  /\ [](/\ last.op = "disconnect" =>
             /\ raised = "none"
             /\ rfb = NoRfb
             /\ IF last.prevRfb = NoRfb
                THEN calls = << >>
                ELSE /\ calls = << Call("disconnect", last.prevRfb, "", "") >>
                     /\ disconnects[last.prevRfb] = 1
        /\ disconnect(disconnect(Cur)) = disconnect(Cur))
  /\ [][(last'.op = "disconnect" /\ rfb = NoRfb) =>
          UNCHANGED << props, canvas, rfb, created, disconnects, fields,
                       listeners >>]_vars

\* C3 witness: disconnect() ran on a mounted component whose instance had
\* already been disconnected.
C3_Witness ==
  /\ last.op = "disconnect"
  /\ last.prevRfb = NoRfb
  /\ phase = "mounted"
  /\ attempt = "handle"
  /\ created >= 1

\* C4: when an unmount completes, this.rfb is cleared and every instance
\* ever constructed has had its disconnect invoked exactly once; running
\* the tear-down path again changes nothing and calls nothing.
C4_UnmountTearsDownAll ==
  last.op = "componentWillUnmount" =>
    /\ rfb = NoRfb
    /\ raised = "none"
    /\ \A i \in 1..created : disconnects[i] = 1
    /\ disconnect(Cur) = Cur

\* C4 witness: an unmount tore down the second instance of a component that
\* was reconnected while mounted.
C4_Witness ==
  /\ last.op = "componentWillUnmount"
  /\ last.prevRfb = 2
  /\ created = 2

\* C5: after a mount without a container handle no instance is ever
\* constructed, no handler raises and no handler calls the external client.
C5_NoHandleNoClient ==
  mountRef = "null" =>
    /\ created = 0
    /\ rfb = NoRfb
    /\ raised = "none"
    /\ calls = << >>

\* C5 witness: a scale change arrived after a mount without a handle.
C5_Witness ==
  /\ mountRef = "null"
  /\ last.op = "componentWillReceiveProps"
  /\ last.prevProps["scale"] # last.nextProps["scale"]

\* C6 (as stated): on an update of a live instance, each pass-through
\* property whose new value is non-null and differs from the previous one
\* is assigned exactly once, with the new value.
C6_UpdateAssignsChanged ==
  UpdatedLive =>
    \A p \in PassThroughSet :
      (NotNullish(last.nextProps[p]) /\ last.nextProps[p] # last.prevProps[p])
        => /\ Cardinality(CallsOf("set", p)) = 1
           /\ \A i \in CallsOf("set", p) :
                calls[i] = Call("set", last.prevRfb, p, last.nextProps[p])

\* C7: an update in which no pass-through value changed writes no field of
\* the live instance, and a field whose property is null or absent in the
\* new configuration keeps its value.
C7_UpdateLeavesFields ==
  [][(last'.op = "componentWillReceiveProps" /\ rfb # NoRfb) =>
       /\ (\A p \in PassThroughSet : last'.nextProps[p] = props[p]) =>
            (fields' = fields /\ CallsOf("set", "*")' = {})
       /\ \A p \in PassThroughSet :
            ~NotNullish(last'.nextProps[p]) =>
              (fields'[p] = fields[p] /\ CallsOf("set", p)' = {})]_vars

\* C7 witness: qualityLevel 3 was applied at connect, and an update without
\* qualityLevel left the field at 3.
C7_Witness ==
  /\ UpdatedLive
  /\ raised = "none"
  /\ last.prevProps["qualityLevel"] = "3"
  /\ last.nextProps["qualityLevel"] = "null"
  /\ fields["qualityLevel"] = "3"

\* C8 (as stated): connect() assigns every pass-through setting whose value
\* is non-null, whatever the value (false, 0 and "" included).
C8_ConnectAssignsNonNull ==
  ConnectedWithHandle =>
    \A p \in PassThroughSet :
      NotNullish(props[p]) =>
        /\ fields[p] = props[p]
        /\ Cardinality(CallsOf("set", p)) = 1

\* C9: connect() with every pass-through setting null constructs exactly
\* one instance, against the container and the url, and assigns no field.
C9_ConnectDefaultsAssignsNothing ==
  (ConnectedWithHandle /\ \A p \in PassThroughSet : ~NotNullish(props[p])) =>
    /\ Cardinality(CallsOf("new", "*")) = 1
    /\ \A i \in CallsOf("new", "*") :
         calls[i] = Call("new", rfb, "div", props["url"])
    /\ CallsOf("set", "*") = {}
    /\ fields = Unset

\* C9 witness: the component was mounted with a handle and the defaults.
C9_Witness ==
  /\ ConnectedWithHandle
  /\ last.op = "componentDidMount"
  /\ props = defaultProps
  /\ rfb = 1

\* C10 (as stated): on an update of a live instance, a changed scale invokes
\* the display-scale setter and the input-pointer-scale setter with the new
\* scale (1 if falsy) and the update does not raise; an unchanged scale
\* invokes neither.
C10_UpdateScale ==
  UpdatedLive =>
    LET v == IF Truthy(last.nextProps["scale"])
             THEN last.nextProps["scale"] ELSE "1"
    IN  /\ raised = "none"
        /\ IF last.nextProps["scale"] # last.prevProps["scale"]
           THEN /\ \E i \in DOMAIN calls :
                     calls[i] = Call("display.set_scale", last.prevRfb, "", v)
                /\ \E i \in DOMAIN calls :
                     calls[i] = Call("mouse.set_scale", last.prevRfb, "", v)
           ELSE /\ CallsOf("display.set_scale", "*") = {}
                /\ CallsOf("mouse.set_scale", "*") = {}

\* The last step was an event dispatched by the instance this.rfb holds.
DispatchedLive == last.op = "dispatchEvent" /\ rfb # NoRfb

\* The callback property of the event last dispatched.
Slot == events[last.input]

\* C11 (as stated): an event fired on the live instance invokes a caller
\* callback if and only if its callback slot was non-null at connect time,
\* and then it invokes exactly that slot's callback, with no arguments.
C11_EventInvokesSlot ==
  DispatchedLive =>
    IF NotNullish(atConnect[Slot])
    THEN /\ raised = "none"
         /\ Len(calls) = 1
         /\ calls[1].op = "callback"
         /\ calls[1].key \in { atConnect[Slot], props[Slot] }
         /\ calls[1].val = ""
    ELSE calls = << >> /\ raised = "none"

\* C12: no configuration update and no pointer event constructs an instance
\* or invokes disconnect: this.rfb holds the same instance afterwards.
C12_UpdateKeepsInstance ==
  [][last'.op \in { "componentWillReceiveProps", "handleMouseEnter",
                    "handleMouseLeave" } =>
       /\ rfb' = rfb
       /\ created' = created
       /\ disconnects' = disconnects
       /\ CallsOf("new", "*")' = {}
       /\ CallsOf("disconnect", "*")' = {}]_vars

\* C12 witness: the url changed in an update and the instance created at
\* mount is still the one held.
C12_Witness ==
  /\ UpdatedLive
  /\ last.prevProps["url"] # last.nextProps["url"]
  /\ props["url"] = last.nextProps["url"]
  /\ rfb = 1
  /\ created = 1
  /\ disconnects[1] = 0

\* C13: pointer-enter with an instance blurs the focused element, if any,
\* and then focuses the instance; pointer-leave with an instance blurs the
\* instance; without an instance neither makes any call.
C13_PointerFocus ==
  /\ last.op = "handleMouseEnter" =>
       /\ raised = "none"
       /\ calls = IF last.prevRfb = NoRfb
                  THEN << >>
                  ELSE IF last.input = "activeElement"
                       THEN << Call("activeElement.blur", 0, "", ""),
                               Call("focus", last.prevRfb, "", "") >>
                       ELSE << Call("focus", last.prevRfb, "", "") >>
  /\ last.op = "handleMouseLeave" =>
       /\ raised = "none"
       /\ calls = IF last.prevRfb = NoRfb
                  THEN << >>
                  ELSE << Call("blur", last.prevRfb, "", "") >>

\* C13 witness: pointer-enter with an instance while an element had focus.
C13_Witness ==
  /\ last.op = "handleMouseEnter"
  /\ last.prevRfb # NoRfb
  /\ last.input = "activeElement"
  /\ Len(calls) = 2

\* C14: an instance has at most one listener per event, exactly for the
\* callback slots that were non-null when connect() constructed it; only
\* connect() adds listeners, so an event whose slot was null at connect
\* invokes no callback even if the slot is non-null by now.
C14_ListenersOncePerConnect ==
  /\ [](/\ \A e \in EventSet :
             /\ listeners[e] <= 1
             /\ created >= 1 =>
                  (listeners[e] = 1 <=> NotNullish(atConnect[events[e]]))
        /\ CallsOf("addEventListener", "*") # {} => last.op \in ConnectOps
        /\ (last.op = "dispatchEvent" /\ ~NotNullish(atConnect[Slot])) =>
             calls = << >>)
  /\ [][last'.op \notin ConnectOps => listeners' = listeners]_vars

\* C14 witness: a slot that was null at connect is non-null after an update,
\* its event fired on the live instance and no callback was invoked.
C14_Witness ==
  /\ DispatchedLive
  /\ ~NotNullish(atConnect[Slot])
  /\ NotNullish(props[Slot])
  /\ calls = << >>

\* The order of the external calls of the last handler, with the handlers
\* in endOps those that may invoke an instance's disconnect.
LifecycleOrder(endOps) ==
  /\ last.op = "componentDidMount" /\ mountRef = "div" =>
       attempt = "handle" /\ rfb = 1
  /\ created >= 1 => mountRef = "div"
  /\ \A i \in DOMAIN calls :
       /\ calls[i].id <= created
       /\ calls[i].op \in { "new", "set", "addEventListener" } =>
            ConnectedWithHandle /\ calls[i].id = rfb
       /\ calls[i].op = "disconnect" =>
            last.op \in endOps /\ calls[i].id = last.prevRfb
       /\ last.op = "componentWillReceiveProps" =>
            calls[i].id = last.prevRfb /\ last.prevRfb \in 1..created
  /\ \A i, j \in DOMAIN calls :
       /\ (calls[i].op = "disconnect" /\ calls[j].op = "new") =>
            (i < j /\ calls[i].id < calls[j].id)
       /\ (calls[i].op = "new" /\ calls[j].op \in { "set", "addEventListener" })
            => i < j
       /\ (calls[i].op = "set" /\ calls[j].op = "addEventListener") => i < j

\* C15 (as stated): the container handle is set before the first connect;
\* a connect cycle constructs the instance, then applies the settings, then
\* registers the listeners; updates touch only a constructed instance; an
\* instance's disconnect is invoked after its construction and only by an
\* unmount or a new connect.
C15_LifecycleOrderUnmountOrConnect ==
  LifecycleOrder({ "componentWillUnmount", "connect", "componentDidMount" })

\* C15 (amended): as stated, with an instance's disconnect invoked only by
\* an unmount, a new connect or a call of disconnect().
C15_LifecycleOrder ==
  LifecycleOrder({ "componentWillUnmount", "connect", "componentDidMount",
                   "disconnect" })

\* C15 witness: a reconnect that disconnected the previous instance, then
\* constructed one, assigned settings and registered listeners.
C15_Witness ==
  /\ ConnectedWithHandle
  /\ last.prevRfb # NoRfb
  /\ CallsOf("disconnect", "*") # {}
  /\ Cardinality(CallsOf("set", "*")) = 2
  /\ Cardinality(CallsOf("addEventListener", "*")) = 2

\* C16: no handler calls an instance whose disconnect has been invoked: an
\* instance called by the last handler has no disconnect so far, or exactly
\* the one the handler made as its last call on it.
C16_NoCallAfterDisconnect ==
  \A i \in DOMAIN calls :
    calls[i].id # 0 =>
      /\ disconnects[calls[i].id] = (IF calls[i].op = "disconnect" THEN 1 ELSE 0)
      /\ \A j \in DOMAIN calls :
           (calls[j].id = calls[i].id /\ calls[i].op = "disconnect") => j <= i

\* C16 witness: pointer-enter arrived after the unmount of a component that
\* had an instance, and called nothing.
C16_Witness ==
  /\ last.op = "handleMouseEnter"
  /\ phase = "unmounted"
  /\ created >= 1
  /\ disconnects[created] = 1
  /\ calls = << >>

\* C17: a listener invokes the callback this.props holds when the event
\* fires: after an update replaced callback f by callback g, the event
\* invokes g, once, and not f.
C17_ListenerReadsCurrentProps ==
  (last.op = "dispatchEvent" /\ listeners[last.input] >= 1
     /\ NotNullish(props[Slot])) =>
    /\ raised = "none"
    /\ calls = << Call("callback", 0, props[Slot], "") >>

\* C17 witness: onBell was f at connect and g when bell fired; g was invoked.
C17_Witness ==
  /\ DispatchedLive
  /\ last.input = "bell"
  /\ atConnect["onBell"] = "f"
  /\ props["onBell"] = "g"
  /\ calls = << Call("callback", 0, "g", "") >>

====
